---- MODULE Spec2Model ----
(***************************************************************************)
(* A model of the Bloom filter example scripts                             *)
(*   src/src/main/python/BloomFilterExample-chatgpt.py                     *)
(*   src/src/main/python/BloomFilterExample_DeepSeek.py                    *)
(*   src/src/main/python/BloomFilterExample_Gemini.py                      *)
(*   src/src/main/python/BloomFilterExample_claude.py                      *)
(* The four scripts drive pybloom_live.BloomFilter.  The filter itself is  *)
(* not part of the repository; the operators that stand for its methods    *)
(* (the constructor, add, __contains__, tofile, fromfile and its pickling) *)
(* follow the behaviour of that library at the places the scripts call it. *)
(*                                                                         *)
(* Two state machines share the variables:                                 *)
(*   Spec       one run of main() of one of the four scripts; for the      *)
(*              chatgpt script, whose functions take their sizes as        *)
(*              arguments, the arguments are drawn from small sets.        *)
(*   SpecFilter the filter driven call by call: add, membership test,      *)
(*              serialization to a file, damage to the file, and           *)
(*              deserialization, followed by further adds on both copies.  *)
(***************************************************************************)
EXTENDS Integers, Sequences, FiniteSets, TLC

VARIABLES variant, capArg, rateArg, popArg, pc, bf, i, digest, inserted,
          disk, written, out, err, tries, num_false_positives, lastHit,
          loaded, loadErr, last, ops, since

vars == <<variant, capArg, rateArg, popArg, pc, bf, i, digest, inserted,
          disk, written, out, err, tries, num_false_positives, lastHit,
          loaded, loadErr, last, ops, since>>

(***************************************************************************)
(* Bounds and scaled program constants.                                    *)
(***************************************************************************)
\* NUM_ENTRIES is 10_000_000 in the scripts; the model runs it scaled down.
NUM_ENTRIES == 1
\* MAX_TRIES is 1_000_000 in the scripts (max_tries in the chatgpt script).
MAX_TRIES == 2
\* Largest capacity and population count handed to the chatgpt functions;
\* the population count reaches ten times NUM_ENTRIES, the first count whose
\* last key f"element{i}" has the digits of a probe key.
MaxCap == 1
MaxPop == 10
\* The number of calls made in a SpecFilter run.
MaxOps == 3
\* A capacity of SpecFilter whose bit array fills whole bytes at rate 1/2.
ByteCap == 5

\* FALSE_POSITIVE_PROBABILITY = 0.01; a rate is the pair
\* <<numerator, denominator>>.
FALSE_POSITIVE_PROBABILITY == <<1, 100>>

\* The error rates the chatgpt script's create_bloom_filter is called with,
\* besides the one main passes.
Rates == {<<0 - 1, 10>>, <<0, 1>>, <<1, 4>>, <<1, 2>>, <<3, 4>>, <<1, 1>>, <<3, 2>>}

Variants == {"chatgpt", "DeepSeek", "Gemini", "claude"}

NoFilter == [num_bits |-> 0 - 1]
IsFilter(f) == f.num_bits >= 0

(***************************************************************************)
(* Keys: f"element{i}" and f"element10000000{tries}".                      *)
(***************************************************************************)
RECURSIVE Str(_)
\* str(n) of a non-negative integer: its decimal digits, most significant first.
Str(n) == IF n < 10 THEN <<n>> ELSE Str(n \div 10) \o <<n % 10>>

\* f"element{n}"
ElementKey(n) == <<"element">> \o Str(n)

\* f"element10000000{t}": the literal digits are those of NUM_ENTRIES.
ProbeKey(t) == <<"element">> \o Str(NUM_ENTRIES) \o Str(t)

(***************************************************************************)
(* Sizing: BloomFilter(capacity, error_rate).                              *)
(***************************************************************************)
CeilDiv(a, b) == (a + b - 1) \div b

RECURSIVE Pow2(_)
Pow2(n) == IF n = 0 THEN 1 ELSE 2 * Pow2(n - 1)

RECURSIVE CeilLog2Inv(_, _)
\* ceil(log2(1 / p)) for 0 < p: the least s with p * 2^s >= 1.
CeilLog2Inv(p, s) == IF p[1] * Pow2(s) >= p[2] THEN s ELSE CeilLog2Inv(p, s + 1)

\* abs(math.log(p)) / math.log(2) ** 2 as a ratio <<numerator, denominator>>,
\* for the rates the model constructs with: a convergent of the continued
\* fraction of the quotient (9.5850583..., 2.8853900..., 1.4426950...,
\* 0.5987725...), with which BitsPerSlice equals the floating point result
\* for every capacity up to 20000.
LnRatio(p) ==
    CASE p = <<1, 100>> -> <<72233, 7536>>
      [] p = <<1, 4>> -> <<73488, 25469>>
      [] p = <<1, 2>> -> <<36744, 25469>>
      [] p = <<3, 4>> -> <<106051, 177114>>

\* The constructor's parameter checks: 0 < error_rate < 1 and capacity > 0.
RateValid(p) == 0 < p[1] /\ p[1] < p[2]
\* A constructor that lets a capacity of 0 through.
CapacityValidFromZero(n) == n >= 0
CapacityValid(n) == n > 0
ConstructRaises(n, p) == ~RateValid(p) \/ ~CapacityValid(n)

NumSlices(p) == CeilLog2Inv(p, 0)

\* ceil(capacity * |ln p| / (num_slices * ln(2)^2)).
BitsPerSlice(n, p) == CeilDiv(n * LnRatio(p)[1], NumSlices(p) * LnRatio(p)[2])

\* BloomFilter(capacity=n, error_rate=p), for accepted parameters.
NewFilter(n, p) ==
    [error_rate |-> p,
     num_slices |-> NumSlices(p),
     bits_per_slice |-> BitsPerSlice(n, p),
     capacity |-> n,
     num_bits |-> NumSlices(p) * BitsPerSlice(n, p),
     count |-> 0,
     bitarray |-> [j \in 1..(NumSlices(p) * BitsPerSlice(n, p)) |-> 0]]

(***************************************************************************)
(* Hashing, add and membership.                                            *)
(***************************************************************************)
\* The unsigned integers a key's digest unpacks to, one for every slice.
\* They are wider than a slice is long and only their residue modulo
\* bits_per_slice is used, so they are drawn by residue: every vector of
\* per-slice positions is the digest of some key.
Uints(f) == [1..f.num_slices -> 0..(f.bits_per_slice - 1)]

\* make_hashes: each unpacked integer is reduced modulo bits_per_slice.
Hashes(f, u) == [s \in 1..f.num_slices |-> u[s] % f.bits_per_slice]

\* The bit index probed in slice s (0-based): offset + k.
ProbeIndex(f, u, s) == (s - 1) * f.bits_per_slice + Hashes(f, u)[s]

\* key in filter: every probed bit is set.
Contains(f, u) ==
    \A s \in 1..f.num_slices : f.bitarray[ProbeIndex(f, u, s) + 1] = 1

\* add raises IndexError("BloomFilter is at capacity") when count > capacity.
AddRaises(f) == f.count > f.capacity

\* An add that leaves the last slice untouched.
AddSkipsLastSlice(f, u) ==
    IF f.count > f.capacity THEN f
    ELSE [f EXCEPT
            !.bitarray = [j \in 1..Len(f.bitarray) |->
                            IF \E s \in 1..(f.num_slices - 1) : j = ProbeIndex(f, u, s) + 1
                            THEN 1 ELSE f.bitarray[j]],
            !.count = IF Contains(f, u) THEN @ ELSE @ + 1]

\* An add that stores the probed bits in place of the slice's old bits.
AddOverwrites(f, u) ==
    IF f.count > f.capacity THEN f
    ELSE [f EXCEPT
            !.bitarray = [j \in 1..Len(f.bitarray) |->
                            IF \E s \in 1..f.num_slices : j = ProbeIndex(f, u, s) + 1
                            THEN 1 ELSE 0],
            !.count = IF Contains(f, u) THEN @ ELSE @ + 1]

\* add: sets the probed bit of every slice; count grows only when some
\* probed bit was not yet set.  Nothing changes when it raises.
Add(f, u) ==
    IF AddRaises(f) THEN f
    ELSE [f EXCEPT
            !.bitarray = [j \in 1..Len(f.bitarray) |->
                            IF \E s \in 1..f.num_slices : j = ProbeIndex(f, u, s) + 1
                            THEN 1 ELSE f.bitarray[j]],
            !.count = IF Contains(f, u) THEN @ ELSE @ + 1]

\* The digests a call may see for a key: the one already used for it, if
\* any, and otherwise any digest (the hash is a fixed unknown function).
DigestsOf(f, key) ==
    IF key \in DOMAIN digest THEN {digest[key]} ELSE Uints(f)

\* The answers key in filter may give for a key.
Answers(f, key) == {Contains(f, u) : u \in DigestsOf(f, key)}

Remember(key, u) == [k \in DOMAIN digest \cup {key} |-> IF k = key THEN u ELSE digest[k]]

(***************************************************************************)
(* Serialization: BloomFilter.tofile / fromfile and pickle.dump / load.    *)
(***************************************************************************)
RECURSIVE ByteValue(_, _, _)
\* The value of byte b (0-based) of a little-endian bit array: bit 8*b + j
\* weighs 2^j; bits past the end of the array count as 0 (padding).
ByteValue(bits, b, j) ==
    IF j = 8 THEN 0
    ELSE (IF 8 * b + j + 1 <= Len(bits) THEN bits[8 * b + j + 1] ELSE 0) * Pow2(j)
         + ByteValue(bits, b, j + 1)

\* bitarray.tobytes / bitarray.tofile: ceil(len / 8) bytes.
ToBytes(bits) == [b \in 1..CeilDiv(Len(bits), 8) |-> ByteValue(bits, b - 1, 0)]

\* bitarray.frombytes / bitarray.fromfile: 8 bits for every byte read.
FromBytes(bytes) ==
    [j \in 1..(8 * Len(bytes)) |-> (bytes[((j - 1) \div 8) + 1] \div Pow2((j - 1) % 8)) % 2]

\* The number of fields of the '<dQQQQ' header.
HeaderFields(f) == <<f.error_rate, f.num_slices, f.bits_per_slice, f.capacity, f.count>>

\* BloomFilter.tofile: the packed header, then the bytes of the bit array.
ToFile(f) == HeaderFields(f) \o ToBytes(f.bitarray)

\* fromfile's check of the bit length against the header.
BitLengthMismatch(nbits, len) ==
    nbits # len /\ nbits + (8 - (nbits % 8)) # len

\* BloomFilter.fromfile: a short header fails to unpack; a payload of the
\* wrong length raises ValueError; otherwise the fields are taken as read.
FromFile(data) ==
    IF Len(data) < Len(HeaderFields(NewFilter(1, <<1, 2>>)))
    THEN [ok |-> FALSE, err |-> "struct.error", f |-> NoFilter]
    ELSE LET nbits == data[2] * data[3]
             bits == FromBytes(SubSeq(data, 6, Len(data)))
         IN IF BitLengthMismatch(nbits, Len(bits))
            THEN [ok |-> FALSE, err |-> "ValueError", f |-> NoFilter]
            ELSE [ok |-> TRUE, err |-> "none",
                  f |-> [error_rate |-> data[1],
                         num_slices |-> data[2],
                         bits_per_slice |-> data[3],
                         capacity |-> data[4],
                         num_bits |-> nbits,
                         count |-> data[5],
                         bitarray |-> bits]]

\* The highest pickle protocol pickle.load accepts.
HIGHEST_PROTOCOL == 5
\* The pickle opcodes PROTO (0x80) and FRAME (0x95).
PROTO == 128
FRAME == 149

\* pickle.dump: the PROTO opcode and the protocol number, the FRAME opcode,
\* the object's state (the bit array with its exact length), and the STOP
\* opcode that closes the stream.
Pickle(f) ==
    <<PROTO, 4, FRAME, f.error_rate, f.num_slices, f.bits_per_slice,
      f.capacity, f.num_bits, f.count, f.bitarray, "STOP">>

\* What pickle.load does with the first byte of a stream of full length:
\* PROTO starts the stream; BININT1 (75) pushes the next byte as an integer
\* that stays under the result, and the load goes on; FLOAT, INT and the
\* EXT opcodes raise ValueError; LONG, BINSTRING, GLOBAL, GET and
\* SHORT_BINUNICODE raise UnicodeDecodeError; every other byte raises
\* UnpicklingError.
FirstByte(b) ==
    CASE b \in {PROTO, 75} -> "none"
      [] b \in {70, 73, 130, 131, 132} -> "ValueError"
      [] b \in {76, 85, 99, 103, 140} -> "UnicodeDecodeError"
      [] OTHER -> "UnpicklingError"

\* What pickle.load does with the byte in the place of the FRAME opcode:
\* FRAME opens the frame; BINFLOAT (71) reads the frame length as a float
\* that stays under the result; the other bytes raise as listed.
FrameByte(b) ==
    CASE b \in {FRAME, 71} -> "none"
      [] b \in {70, 73, 128, 130, 131, 132} -> "ValueError"
      [] b \in {76, 84, 85, 88, 99, 103, 140, 141} -> "UnicodeDecodeError"
      [] b \in {142, 150} -> "EOFError"
      [] OTHER -> "UnpicklingError"

\* The error pickle.load raises on a stream, "none" when it returns: an
\* empty stream and one that ends right after the protocol number raise
\* EOFError and a stream cut anywhere else before STOP raises
\* UnpicklingError; a protocol number above the highest one raises
\* ValueError; the first byte and the frame byte are treated as above.
UnpickleError(data) ==
    CASE Len(data) = 0 -> "EOFError"
      [] Len(data) = 1 -> "UnpicklingError"
      [] Len(data) = 2 -> "EOFError"
      [] Len(data) >= 3 /\ Len(data) < Len(Pickle(NewFilter(1, <<1, 2>>))) ->
            "UnpicklingError"
      [] OTHER ->
            IF FirstByte(data[1]) # "none" THEN FirstByte(data[1])
            ELSE IF data[1] = PROTO /\ data[2] > HIGHEST_PROTOCOL THEN "ValueError"
            ELSE FrameByte(data[3])

\* pickle.load: the state is restored as dumped, or the load raises.
Unpickle(data) ==
    IF UnpickleError(data) # "none"
    THEN [ok |-> FALSE, err |-> UnpickleError(data), f |-> NoFilter]
    ELSE [ok |-> TRUE, err |-> "none",
          f |-> [error_rate |-> data[4],
                 num_slices |-> data[5],
                 bits_per_slice |-> data[6],
                 capacity |-> data[7],
                 num_bits |-> data[8],
                 count |-> data[9],
                 bitarray |-> data[10]]]

\* The scripts that persist with tofile / fromfile; the others pickle.
UsesToFile(v) == v = "DeepSeek"

Serialized(v, f) == IF UsesToFile(v) THEN ToFile(f) ELSE Pickle(f)
Deserialized(v, data) == IF UsesToFile(v) THEN FromFile(data) ELSE Unpickle(data)

NoDisk == [exists |-> FALSE, data |-> <<>>]
NoCall == [op |-> "none", dup |-> FALSE, raised |-> FALSE]
\* The keys added to the filter and to its deserialized copy since the copy
\* was made.
NoAdds == [bf |-> <<>>, copy |-> <<>>]

(***************************************************************************)
(* main(): create, populate, serialize, test_membership.                   *)
(***************************************************************************)
Bit(b) == IF b THEN 1 ELSE 0

Init ==
    /\ variant \in Variants
    /\ \/ /\ capArg = NUM_ENTRIES
          /\ rateArg = FALSE_POSITIVE_PROBABILITY
          /\ popArg = NUM_ENTRIES
       \/ /\ variant = "chatgpt"
          /\ capArg \in 0..MaxCap
          /\ rateArg \in Rates
          /\ popArg \in 1..MaxPop
    /\ pc = "create"
    /\ bf = NoFilter
    /\ i = 1
    /\ digest = <<>>
    /\ inserted = {}
    /\ disk = NoDisk
    /\ written = "none"
    /\ out = << <<"Starting Bloom Filter Example...", 0>> >>
    /\ err = "none"
    /\ tries = 0
    /\ num_false_positives = 0
    /\ lastHit = FALSE
    /\ loaded = NoFilter
    /\ loadErr = "none"
    /\ last = NoCall
    /\ ops = 0
    /\ since = NoAdds

\* create_bloom_filter with rejected parameters: the constructor raises
\* ValueError, which main does not catch.
create_bloom_filter_raises ==
    /\ pc = "create"
    /\ ConstructRaises(capArg, rateArg)
    /\ pc' = "crashed"
    /\ err' = "ValueError"
    /\ UNCHANGED <<variant, capArg, rateArg, popArg, bf, i, digest, inserted,
                   disk, written, out, tries, num_false_positives, lastHit,
                   loaded, loadErr, last, ops, since>>

\* create_bloom_filter, then print("Bloom filter created.").
create_bloom_filter ==
    /\ pc = "create"
    /\ ~ConstructRaises(capArg, rateArg)
    /\ bf' = NewFilter(capArg, rateArg)
    /\ out' = Append(out, <<"Bloom filter created.", 0>>)
    /\ pc' = "populate"
    /\ i' = 1
    /\ UNCHANGED <<variant, capArg, rateArg, popArg, digest, inserted, disk,
                   written, err, tries, num_false_positives, lastHit, loaded,
                   loadErr, last, ops, since>>

\* One iteration of populate_bloom_filter: filter.add(f"element{i}").
populate_bloom_filter ==
    /\ pc = "populate"
    /\ i <= popArg
    /\ ~AddRaises(bf)
    /\ \E u \in DigestsOf(bf, ElementKey(i)) :
          /\ bf' = Add(bf, u)
          /\ digest' = Remember(ElementKey(i), u)
    /\ inserted' = inserted \cup {ElementKey(i)}
    /\ i' = i + 1
    /\ UNCHANGED <<variant, capArg, rateArg, popArg, pc, disk, written, out,
                   err, tries, num_false_positives, lastHit, loaded, loadErr,
                   last, ops, since>>

\* filter.add raises IndexError inside populate_bloom_filter; main ends.
populate_bloom_filter_raises ==
    /\ pc = "populate"
    /\ i <= popArg
    /\ AddRaises(bf)
    /\ pc' = "crashed"
    /\ err' = "IndexError"
    /\ UNCHANGED <<variant, capArg, rateArg, popArg, bf, i, digest, inserted,
                   disk, written, out, tries, num_false_positives, lastHit,
                   loaded, loadErr, last, ops, since>>

\* The loop is over; main prints the populated line.
populate_done ==
    /\ pc = "populate"
    /\ i > popArg
    /\ out' = Append(out, <<"Bloom filter populated", NUM_ENTRIES>>)
    /\ pc' = "serialize"
    /\ UNCHANGED <<variant, capArg, rateArg, popArg, bf, i, digest, inserted,
                   disk, written, err, tries, num_false_positives, lastHit,
                   loaded, loadErr, last, ops, since>>

\* What a script prints, and where main goes, when the write of the file
\* raised IOError: chatgpt lets it escape main; DeepSeek prints the error
\* and returns; Gemini and claude print the error to stderr, return, and
\* main prints the serialized line.
AfterSerializeError ==
    /\ pc' = IF variant = "chatgpt" THEN "crashed" ELSE "test"
    /\ err' = IF variant = "chatgpt" THEN "IOError" ELSE err
    /\ out' = CASE variant = "chatgpt" -> out
                [] variant = "DeepSeek" ->
                     Append(out, <<"Error serializing Bloom filter", 1>>)
                [] OTHER ->
                     out \o << <<"Error serializing Bloom filter", 2>>,
                               <<"Bloom filter serialized to", 0>> >>

\* serialize_bloom_filter: the file is opened and written in full.
serialize_bloom_filter ==
    /\ pc = "serialize"
    /\ disk' = [exists |-> TRUE, data |-> Serialized(variant, bf)]
    /\ written' = "full"
    /\ out' = Append(out, <<"Bloom filter serialized to", 0>>)
    /\ pc' = "test"
    /\ UNCHANGED <<variant, capArg, rateArg, popArg, bf, i, digest, inserted,
                   err, tries, num_false_positives, lastHit, loaded, loadErr,
                   last, ops, since>>

\* serialize_bloom_filter: open(file, "wb") raises IOError.
serialize_open_fails ==
    /\ pc = "serialize"
    /\ written' = "failed"
    /\ AfterSerializeError
    /\ UNCHANGED <<variant, capArg, rateArg, popArg, bf, i, digest, inserted,
                   disk, tries, num_false_positives, lastHit, loaded, loadErr,
                   last, ops, since>>

\* serialize_bloom_filter: the write raises IOError after n units reached
\* the file, which open(file, "wb") had truncated.
serialize_write_fails ==
    /\ pc = "serialize"
    /\ \E n \in 0..(Len(Serialized(variant, bf)) - 1) :
          disk' = [exists |-> TRUE, data |-> SubSeq(Serialized(variant, bf), 1, n)]
    /\ written' = "partial"
    /\ AfterSerializeError
    /\ UNCHANGED <<variant, capArg, rateArg, popArg, bf, i, digest, inserted,
                   tries, num_false_positives, lastHit, loaded, loadErr, last, ops, since>>

\* test_membership up to its loop: the three fixed membership prints.
test_membership ==
    /\ pc = "test"
    /\ \E h1 \in Answers(bf, ElementKey(1)), h2 \in Answers(bf, ElementKey(2)),
          h0 \in Answers(bf, ElementKey(0)) :
          out' = out \o << <<"Testing membership...", 0>>,
                           <<"Contains 'element1'", Bit(h1)>>,
                           <<"Contains 'element2'", Bit(h2)>>,
                           <<"Contains 'element0'", Bit(h0)>> >>
    /\ tries' = 0
    /\ num_false_positives' = 0
    /\ pc' = "probe"
    /\ UNCHANGED <<variant, capArg, rateArg, popArg, bf, i, digest, inserted,
                   disk, written, err, lastHit, loaded, loadErr, last, ops, since>>

\* One iteration of the false-positive loop of test_membership.
test_membership_probe ==
    /\ pc = "probe"
    /\ tries < MAX_TRIES
    /\ \E hit \in Answers(bf, ProbeKey(tries)) :
          /\ num_false_positives' = num_false_positives + Bit(hit)
          /\ out' = IF hit /\ tries < 10
                    THEN Append(out, <<"False positive at", tries>>)
                    ELSE out
    /\ tries' = tries + 1
    /\ UNCHANGED <<variant, capArg, rateArg, popArg, pc, bf, i, digest,
                   inserted, disk, written, err, lastHit, loaded, loadErr,
                   last, ops, since>>

\* The loop is over: the total is printed and main prints its last line.
test_membership_done ==
    /\ pc = "probe"
    /\ tries >= MAX_TRIES
    /\ out' = out \o << <<"Total False positives", num_false_positives>>,
                        <<"Bloom Filter Example Complete.", 0>> >>
    /\ pc' = "done"
    /\ UNCHANGED <<variant, capArg, rateArg, popArg, bf, i, digest, inserted,
                   disk, written, err, tries, num_false_positives, lastHit,
                   loaded, loadErr, last, ops, since>>

main ==
    \/ create_bloom_filter_raises
    \/ create_bloom_filter
    \/ populate_bloom_filter
    \/ populate_bloom_filter_raises
    \/ populate_done
    \/ serialize_bloom_filter
    \/ serialize_open_fails
    \/ serialize_write_fails
    \/ test_membership
    \/ test_membership_probe
    \/ test_membership_done

Next == main

Spec == Init /\ [][Next]_vars

(***************************************************************************)
(* The filter driven call by call.                                         *)
(***************************************************************************)
\* The keys SpecFilter calls the filter with: element0 and element1.
Keys == {ElementKey(0), ElementKey(1)}

\* The rates SpecFilter constructs with.
FilterRates == {p \in Rates : RateValid(p)}

\* The scripts that define deserialize_bloom_filter.
Loaders == {"chatgpt", "DeepSeek"}

InitFilter ==
    /\ variant \in Loaders
    /\ capArg \in (1..MaxCap) \cup {ByteCap}
    /\ rateArg \in FilterRates
    /\ capArg = ByteCap => rateArg = <<1, 2>>
    /\ popArg = 0
    /\ pc = "filter"
    /\ bf = NewFilter(capArg, rateArg)
    /\ i = 1
    /\ digest = <<>>
    /\ inserted = {}
    /\ disk = NoDisk
    /\ written = "none"
    /\ out = <<>>
    /\ err = "none"
    /\ tries = 0
    /\ num_false_positives = 0
    /\ lastHit = FALSE
    /\ loaded = NoFilter
    /\ loadErr = "none"
    /\ last = NoCall
    /\ ops = 0
    /\ since = NoAdds

\* Calls are made on the filter before it is serialized, and on the filter
\* and its copy once deserialize_bloom_filter has returned one.
Callable == pc = "filter" \/ (pc = "loaded" /\ IsFilter(loaded))

\* filter.add(key) on the filter that was constructed.
Insert(key) ==
    /\ Callable
    /\ ops < MaxOps
    /\ \E u \in DigestsOf(bf, key) :
          /\ bf' = Add(bf, u)
          /\ digest' = Remember(key, u)
    /\ inserted' = IF AddRaises(bf) THEN inserted ELSE inserted \cup {key}
    /\ last' = [op |-> "add", dup |-> key \in inserted, raised |-> AddRaises(bf)]
    /\ since' = IF pc = "loaded" THEN [since EXCEPT !.bf = Append(@, key)] ELSE since
    /\ ops' = ops + 1
    /\ UNCHANGED <<variant, capArg, rateArg, popArg, pc, i, disk, written,
                   out, err, tries, num_false_positives, lastHit, loaded,
                   loadErr>>

\* filter.add(key) on the filter that deserialize_bloom_filter returned.
InsertCopy(key) ==
    /\ pc = "loaded"
    /\ IsFilter(loaded)
    /\ ops < MaxOps
    /\ \E u \in DigestsOf(loaded, key) :
          /\ loaded' = Add(loaded, u)
          /\ digest' = Remember(key, u)
    /\ last' = [op |-> "add_copy", dup |-> FALSE, raised |-> AddRaises(loaded)]
    /\ since' = [since EXCEPT !.copy = Append(@, key)]
    /\ ops' = ops + 1
    /\ UNCHANGED <<variant, capArg, rateArg, popArg, pc, bf, i, inserted,
                   disk, written, out, err, tries, num_false_positives,
                   lastHit, loadErr>>

\* key in filter.
Query(key) ==
    /\ Callable
    /\ ops < MaxOps
    /\ \E u \in DigestsOf(bf, key) :
          /\ lastHit' = Contains(bf, u)
          /\ digest' = Remember(key, u)
    /\ last' = [op |-> "contains", dup |-> key \in inserted, raised |-> FALSE]
    /\ ops' = ops + 1
    /\ UNCHANGED <<variant, capArg, rateArg, popArg, pc, bf, i, inserted,
                   disk, written, out, err, tries, num_false_positives,
                   loaded, loadErr, since>>

\* What serialize_bloom_filter leaves behind when the write raised IOError:
\* the chatgpt function lets it reach the caller, the DeepSeek one prints.
AfterDumpError ==
    /\ err' = IF variant = "chatgpt" THEN "IOError" ELSE err
    /\ out' = IF variant = "chatgpt" THEN out
              ELSE Append(out, <<"Error serializing Bloom filter", 1>>)

\* serialize_bloom_filter(filter, file): written in full.
Dump ==
    /\ pc = "filter"
    /\ disk' = [exists |-> TRUE, data |-> Serialized(variant, bf)]
    /\ written' = "full"
    /\ out' = IF variant = "chatgpt" THEN out
              ELSE Append(out, <<"Bloom filter serialized to", 0>>)
    /\ pc' = "dumped"
    /\ last' = [op |-> "serialize", dup |-> FALSE, raised |-> FALSE]
    /\ UNCHANGED <<variant, capArg, rateArg, popArg, bf, i, digest, inserted,
                   err, tries, num_false_positives, lastHit, loaded, loadErr, ops, since>>

\* serialize_bloom_filter: open raises IOError, no file is touched.
DumpOpenFails ==
    /\ pc = "filter"
    /\ written' = "failed"
    /\ AfterDumpError
    /\ pc' = "dumped"
    /\ last' = [op |-> "serialize", dup |-> FALSE, raised |-> variant = "chatgpt"]
    /\ UNCHANGED <<variant, capArg, rateArg, popArg, bf, i, digest, inserted,
                   disk, tries, num_false_positives, lastHit, loaded, loadErr, ops, since>>

\* serialize_bloom_filter: the write raises IOError after n units.
DumpWriteFails ==
    /\ pc = "filter"
    /\ \E n \in 0..(Len(Serialized(variant, bf)) - 1) :
          disk' = [exists |-> TRUE, data |-> SubSeq(Serialized(variant, bf), 1, n)]
    /\ written' = "partial"
    /\ AfterDumpError
    /\ pc' = "dumped"
    /\ last' = [op |-> "serialize", dup |-> FALSE, raised |-> variant = "chatgpt"]
    /\ UNCHANGED <<variant, capArg, rateArg, popArg, bf, i, digest, inserted,
                   tries, num_false_positives, lastHit, loaded, loadErr, ops, since>>

\* The position of the count field in the persisted form.
CountField(v) == IF UsesToFile(v) THEN 5 ELSE 9

\* The byte values a damaged leading byte of a pickle takes.
AlteredBytes == {0, 70, 71, 75, 76, 142, 255}

\* The leading units of a file with one of them altered: the error_rate
\* field of a tofile header; the first byte, the protocol number or the
\* frame byte of a pickle stream.
HeadDamaged(v, data) ==
    IF UsesToFile(v)
    THEN {[data EXCEPT ![1] = p] : p \in FilterRates \ {data[1]}}
    ELSE {[data EXCEPT ![q] = b] : q \in 1..3, b \in AlteredBytes} \ {data}

\* The file is altered before it is read back: its leading bytes.
DamageHead ==
    /\ pc = "dumped"
    /\ written = "full"
    /\ \E d \in HeadDamaged(variant, disk.data) :
          disk' = [disk EXCEPT !.data = d]
    /\ written' = "head"
    /\ UNCHANGED <<variant, capArg, rateArg, popArg, pc, bf, i, digest,
                   inserted, out, err, tries, num_false_positives, lastHit,
                   loaded, loadErr, last, ops, since>>

\* The file is altered before it is read back: its count field.
DamageCount ==
    /\ pc = "dumped"
    /\ written = "full"
    /\ disk' = [disk EXCEPT !.data[CountField(variant)] = @ + 1]
    /\ written' = "count"
    /\ UNCHANGED <<variant, capArg, rateArg, popArg, pc, bf, i, digest,
                   inserted, out, err, tries, num_false_positives, lastHit,
                   loaded, loadErr, last, ops, since>>

\* The file is altered before it is read back: its last unit is cut off.
DamageShort ==
    /\ pc = "dumped"
    /\ written = "full"
    /\ disk' = [disk EXCEPT !.data = SubSeq(@, 1, Len(@) - 1)]
    /\ written' = "short"
    /\ UNCHANGED <<variant, capArg, rateArg, popArg, pc, bf, i, digest,
                   inserted, out, err, tries, num_false_positives, lastHit,
                   loaded, loadErr, last, ops, since>>

\* The file is altered before it is read back: a zero byte is appended.
DamageLong ==
    /\ pc = "dumped"
    /\ written = "full"
    /\ disk' = [disk EXCEPT !.data = Append(@, 0)]
    /\ written' = "long"
    /\ UNCHANGED <<variant, capArg, rateArg, popArg, pc, bf, i, digest,
                   inserted, out, err, tries, num_false_positives, lastHit,
                   loaded, loadErr, last, ops, since>>

\* deserialize_bloom_filter(file) when the file cannot be opened: the
\* chatgpt function lets the IOError reach the caller; the DeepSeek one
\* prints it and returns None.
deserialize_missing ==
    /\ pc = "dumped"
    /\ ~disk.exists
    /\ loaded' = NoFilter
    /\ loadErr' = IF variant = "chatgpt" THEN "IOError" ELSE "none"
    /\ out' = IF variant = "chatgpt" THEN out
              ELSE Append(out, <<"Error deserializing Bloom filter", 1>>)
    /\ pc' = "loaded"
    /\ last' = [op |-> "deserialize", dup |-> FALSE, raised |-> variant = "chatgpt"]
    /\ since' = NoAdds
    /\ UNCHANGED <<variant, capArg, rateArg, popArg, bf, i, digest, inserted,
                   disk, written, err, tries, num_false_positives, lastHit, ops>>

\* deserialize_bloom_filter(file) on a file that opens: what pickle.load or
\* BloomFilter.fromfile returns, or the exception it raises (none of them
\* an IOError, so none is caught).
deserialize_bloom_filter ==
    /\ pc = "dumped"
    /\ disk.exists
    /\ loaded' = Deserialized(variant, disk.data).f
    /\ loadErr' = Deserialized(variant, disk.data).err
    /\ pc' = "loaded"
    /\ last' = [op |-> "deserialize", dup |-> FALSE,
                raised |-> ~Deserialized(variant, disk.data).ok]
    /\ since' = NoAdds
    /\ UNCHANGED <<variant, capArg, rateArg, popArg, bf, i, digest, inserted,
                   disk, written, out, err, tries, num_false_positives,
                   lastHit, ops>>

NextFilter ==
    \/ \E key \in Keys : Insert(key)
    \/ \E key \in Keys : InsertCopy(key)
    \/ \E key \in Keys : Query(key)
    \/ Dump
    \/ DumpOpenFails
    \/ DumpWriteFails
    \/ DamageHead
    \/ DamageCount
    \/ DamageShort
    \/ DamageLong
    \/ deserialize_missing
    \/ deserialize_bloom_filter

SpecFilter == InitFilter /\ [][NextFilter]_vars

(***************************************************************************)
(* Properties of a run of main (Spec).                                     *)
(***************************************************************************)
Printed(tag) == \E j \in 1..Len(out) : out[j][1] = tag
PrintedWith(tag, v) == \E j \in 1..Len(out) : out[j] = <<tag, v>>

\* C1: no false negatives.  Every key that add has accepted tests as a
\* member in every later state, whatever was added after it, and the
\* membership lines main prints for element1 and element2 read True when
\* populate inserted them.
C1_NoFalseNegatives ==
    /\ IsFilter(bf) => \A key \in inserted : Contains(bf, digest[key])
    /\ ElementKey(1) \in inserted => ~PrintedWith("Contains 'element1'", 0)
    /\ ElementKey(2) \in inserted => ~PrintedWith("Contains 'element2'", 0)

C1_Witness ==
    /\ pc = "done"
    /\ Cardinality(inserted) >= 2
    /\ bf.num_slices >= 2
    /\ PrintedWith("Contains 'element1'", 1)
    /\ PrintedWith("Contains 'element2'", 1)

\* C7: insert and contains never fail on a validly constructed filter: no
\* probe is out of range and no sequence of inserts, of any length, makes
\* insert raise.
C7_NeverRaises ==
    /\ IsFilter(bf) =>
         \A u \in Uints(bf), s \in 1..bf.num_slices :
            ProbeIndex(bf, u, s) \in 0..(bf.num_bits - 1)
    /\ err # "IndexError"

\* C8: construction rejects a capacity of 0 and an error rate outside the
\* open interval (0, 1); main then ends with the constructor's error and no
\* filter.  Every filter that is constructed has at least one bit and at
\* least one slice.
C8_ConstructionRejects ==
    /\ (pc # "create" /\ (capArg = 0 \/ rateArg[1] <= 0 \/ rateArg[1] >= rateArg[2]))
          => (pc = "crashed" /\ err = "ValueError" /\ ~IsFilter(bf))
    /\ IsFilter(bf) =>
         /\ capArg >= 1 /\ 0 < rateArg[1] /\ rateArg[1] < rateArg[2]
         /\ bf.num_bits >= 1
         /\ bf.num_slices >= 1
         /\ bf.bits_per_slice >= 1

C8_Witness ==
    /\ pc = "crashed"
    /\ err = "ValueError"
    /\ rateArg = <<1, 1>>
    /\ capArg >= 1

\* C9: the steps of main occur in the order create, populate, serialize,
\* test_membership, and the line 'Bloom filter serialized to' is printed
\* only when the serialize step completed without error.
C9_SerializedOnlyOnSuccess ==
    /\ pc \in {"populate", "serialize", "test", "probe", "done"} => IsFilter(bf)
    /\ pc \in {"serialize", "test", "probe", "done"} => i = popArg + 1
    /\ pc \in {"test", "probe", "done"} => written # "none"
    /\ pc \in {"create", "populate", "serialize"} => written = "none"
    /\ Printed("Bloom filter serialized to") => written = "full"

\* C6: persistence is all-or-nothing.  No strict prefix of the serialized
\* filter deserializes, and a serialize step that was interrupted is
\* treated as a total failure: the run neither reports the filter as
\* serialized nor goes on to report completion.
C6_AllOrNothing ==
    /\ IsFilter(bf) =>
         \A n \in 0..(Len(Serialized(variant, bf)) - 1) :
            ~Deserialized(variant, SubSeq(Serialized(variant, bf), 1, n)).ok
    /\ written = "partial" =>
         /\ ~Printed("Bloom filter serialized to")
         /\ ~Printed("Bloom Filter Example Complete.")

\* C10: the false-positive tally counts only genuine false positives.  No
\* probe that test_membership counted and printed as a false positive is for
\* a key that populate inserted, at the end of a run no inserted key is
\* element0 or a probe key, and the tally never exceeds the number of
\* probes made.
C10_OnlyFalsePositives ==
    /\ \A t \in 0..(MAX_TRIES - 1) :
          PrintedWith("False positive at", t) => ProbeKey(t) \notin inserted
    /\ pc = "done" =>
          \A key \in inserted :
             /\ key # ElementKey(0)
             /\ \A t \in 0..(MAX_TRIES - 1) : key # ProbeKey(t)
    /\ num_false_positives <= tries
    /\ tries <= MAX_TRIES

(***************************************************************************)
(* Properties of the filter driven call by call (SpecFilter).              *)
(***************************************************************************)
InsertStep == ops' = ops + 1 /\ last'.op = "add"
InsertCopyStep == ops' = ops + 1 /\ last'.op = "add_copy"

\* C2: round-trip fidelity.  The filter read back from a file written in
\* full has the same bit array as the original, with its other fields, also
\* after the same further adds were made on both.
C2_RoundTripExact ==
    (pc = "loaded" /\ written = "full" /\ since.bf = since.copy) =>
       /\ IsFilter(loaded)
       /\ loaded.num_bits = bf.num_bits
       /\ loaded.num_slices = bf.num_slices
       /\ loaded.count = bf.count
       /\ loaded.bitarray = bf.bitarray

\* C3: the bit array is append-only.  In every step a bit that is 1 stays
\* 1 and the array keeps its length, in the filter and in its deserialized
\* copy; a step that is not an add on a filter (a membership test, a
\* serialization, a deserialization, damage to the file, an add on the
\* other filter) leaves that filter as it was.
C3_AppendOnly ==
    [][/\ Len(bf'.bitarray) = Len(bf.bitarray)
       /\ \A j \in 1..Len(bf.bitarray) : bf.bitarray[j] = 1 => bf'.bitarray[j] = 1
       /\ IsFilter(loaded) =>
            /\ IsFilter(loaded')
            /\ Len(loaded'.bitarray) = Len(loaded.bitarray)
            /\ \A j \in 1..Len(loaded.bitarray) :
                  loaded.bitarray[j] = 1 => loaded'.bitarray[j] = 1
       /\ ~InsertStep => bf' = bf
       /\ ~InsertCopyStep => (IsFilter(loaded) => loaded' = loaded)]_vars

C3_Witness ==
    /\ pc = "loaded"
    /\ IsFilter(loaded)
    /\ last.op = "add_copy"
    /\ ~last.raised
    /\ Len(since.bf) >= 1
    /\ loaded.count >= 2

\* C4: insert is idempotent up to the counter.  The second insert of a key
\* leaves the bit array as it was and increments the count, as every insert
\* does.
C4_CountsEveryInsert ==
    [][(InsertStep /\ last'.dup /\ ~last'.raised) =>
          /\ bf'.bitarray = bf.bitarray
          /\ bf'.count = bf.count + 1]_vars

\* The bytes of payload in a file written by tofile.
PayloadBytes == Len(disk.data) - Len(HeaderFields(bf))

\* C5: deserialization never yields a filter from malformed input.  A
\* buffer whose leading bytes were altered, or whose payload is not
\* ceil(m/8) bytes long, is rejected with an error and no filter is
\* produced.
C5_RejectsMalformed ==
    (pc = "loaded" /\ UsesToFile(variant) /\ written \in {"head", "short", "long"}) =>
       (~IsFilter(loaded) /\ loadErr # "none")

\* C6, the half that holds: no strict prefix of a serialized filter
\* deserializes, and after a serialize call that failed, what is on disk
\* does not deserialize to a filter.
C6_PrefixFails ==
    /\ \A n \in 0..(Len(Serialized(variant, bf)) - 1) :
          ~Deserialized(variant, SubSeq(Serialized(variant, bf), 1, n)).ok
    /\ (pc = "loaded" /\ written \in {"partial", "failed"}) =>
          (~IsFilter(loaded) /\ (disk.exists => loadErr # "none"))

C6_Witness ==
    /\ pc = "loaded"
    /\ written = "partial"
    /\ UsesToFile(variant)
    /\ PayloadBytes >= 0
    /\ bf.count >= 1
    /\ ~IsFilter(loaded)

====
